---- MODULE Spec2Model ----
\* Model of uhttpd's Lua plugin (lua.c): plugin initialisation, request
\* dispatch into a spawned process, the per-request environment table, the
\* protected call of handle_request, and uhttpd.recv().
EXTENDS Integers, Sequences, FiniteSets, TLC

VARIABLES
    conf,           \* struct config: lua_prefix, lua_handler, docroot
    script,         \* what the file conf.lua_handler does when loaded and run
    state,          \* server process: "boot", "running", "exited"
    exit_status,    \* exit status of the server process, -1 while alive
    dispatch,       \* handlers registered through ops->dispatch_add
    _L,             \* static lua_State *_L of the server process (<<>> = NULL)
    lua_opens,      \* number of lua_open() calls made by the server process
    err_out,        \* lines written to stderr by the server process
    _pi,            \* static struct path_info _pi of lua_handle_request
    reqs,           \* one record per request handed to lua_handle_request
    client_errors,  \* responses sent through ops->client_error
    rpc,            \* uh_lua_recv: "idle", "loop", "done"
    len,            \* uh_lua_recv: requested length
    B,              \* uh_lua_recv: luaL_Buffer contents
    data_len,       \* uh_lua_recv: data_len
    errno,          \* errno of the process running uh_lua_recv
    revents,        \* pfd.revents
    ev,             \* outcome of the last read() of uh_lua_recv
    ret,            \* values uh_lua_recv returned to the script
    stdin,          \* request body not read yet
    stdin0,         \* request body as it was when uh_lua_recv was entered
    retries         \* retried reads in the current uh_lua_recv call

mainvars == <<conf, script, state, exit_status, dispatch, _L, lua_opens, err_out, _pi,
              reqs, client_errors>>
recvvars == <<rpc, len, B, data_len, errno, revents, ev, ret, stdin, stdin0,
              retries>>
vars == <<conf, script, state, exit_status, dispatch, _L, lua_opens, err_out, _pi,
          reqs, client_errors, rpc, len, B, data_len, errno, revents, ev, ret,
          stdin, stdin0, retries>>

\* ---------------------------------------------------------------- bounds
MaxRequests == 2
MaxUrlLen == 3
MaxPrefixLen == 2
MaxVars == 2
MaxBody == 3
MaxLen == 2
LUAL_BUFFERSIZE == 2
MaxRetry == 1

\* ------------------------------------------------------------- C strings
\* A C string is a sequence of characters; a pointer that may be NULL is a
\* sequence of length 0 (NULL) or 1 (the object pointed to).
NULL == <<>>
Ptr(x) == <<x>>

Chars == {"/", "a", "?"}

RECURSIVE SeqsUpTo(_, _)
SeqsUpTo(S, n) ==
    IF n = 0 THEN {<<>>}
    ELSE LET R == SeqsUpTo(S, n - 1)
         IN  R \cup {Append(s, c) : s \in {x \in R : Len(x) = n - 1}, c \in S}

strlen(s) == Len(s)

\* strchr: 1-based index of the first occurrence of c in s, 0 when absent
strchr(s, c) ==
    IF \E i \in 1..Len(s) : s[i] = c
    THEN CHOOSE i \in 1..Len(s) : s[i] = c /\ \A j \in 1..(i - 1) : s[j] # c
    ELSE 0

\* --------------------------------------------------------- Lua values
LuaString(s) == [t |-> "string", v |-> s]
LuaNumber(n) == [t |-> "number", v |-> n]
LuaCFunction(f) == [t |-> "function", v |-> f]

EmptyTable == [k \in {} |-> LuaNumber(0)]

lua_setfield(t, k, v) ==
    [x \in (DOMAIN t) \cup {k} |-> IF x = k THEN v ELSE t[x]]

LUA_ERRRUN == 2
LUA_ERRSYNTAX == 3
LUA_ERRMEM == 4
LUA_ERRERR == 5
LUA_ERRFILE == 6

\* results of luaL_loadfile and of lua_pcall
LoadResults == {0, LUA_ERRSYNTAX, LUA_ERRMEM, LUA_ERRFILE}
PcallResults == {0, LUA_ERRRUN, LUA_ERRMEM, LUA_ERRERR}

\* types of the value a script leaves as handle_request or raises as error
LuaTypes == {"function", "nil", "string", "number", "table"}

\* a protected call's outcome: status and the type of the error value on the
\* stack; only LUA_ERRRUN carries a value of the script's choosing
PcallOutcomes ==
    {<<0, "nil">>} \cup
    {<<LUA_ERRRUN, t>> : t \in {"string", "number", "nil", "table"}} \cup
    {<<LUA_ERRMEM, "string">>, <<LUA_ERRERR, "string">>}

\* luaL_checkstring / lua_tostring accept strings and numbers only
IsStringable(t) == t \in {"string", "number"}

\* ------------------------------------------------ plugin initialisation
\* lua_open() + luaL_openlibs() + the uhttpd api table
ApiTable(c) ==
    [k \in {"send", "sendc", "recv", "urldecode", "urlencode", "docroot"} |->
        CASE k = "send" -> LuaCFunction("print")
          [] k = "sendc" -> LuaCFunction("print")
          [] k = "recv" -> LuaCFunction("uh_lua_recv")
          [] k = "urldecode" -> LuaCFunction("uh_lua_urldecode")
          [] k = "urlencode" -> LuaCFunction("uh_lua_urlencode")
          [] OTHER -> LuaString(c.docroot)]

\* the interpreter: the uhttpd global, the type of the global handle_request
\* and the number of script chunks / callbacks it has executed
NewState(c) == [uhttpd |-> ApiTable(c), cb |-> "nil", runs |-> 0]

\* the message of the error path: lua_tostring of the value on the stack,
\* NULL for a value that is neither nil, a string nor a number (fprintf then
\* prints an unspecified text; exit(1) follows in every case)
ErrorMsg(t) ==
    IF t = "nil" THEN Ptr("(unknown error)")
    ELSE IF IsStringable(t) THEN Ptr("(error message)")
    ELSE NULL

\* uh_lua_state_init with the "no callback" check left out
uh_lua_state_init_nocheck(c, loadRet, po, cbType) ==
    IF loadRet # 0
    THEN [exit |-> 1, L |-> NewState(c),
          msg |-> <<"Error loading Lua handler", ErrorMsg("string")>>]
    ELSE IF po[1] # 0
    THEN [exit |-> 1, L |-> [NewState(c) EXCEPT !.runs = 1],
          msg |-> <<"Error initializing Lua handler", ErrorMsg(po[2])>>]
    ELSE [exit |-> -1, L |-> [NewState(c) EXCEPT !.runs = 1, !.cb = cbType],
          msg |-> <<>>]

\* uh_lua_state_init: exit = -1 when it returns L, else the status it exits with
uh_lua_state_init(c, loadRet, po, cbType) ==
    IF loadRet # 0
    THEN [exit |-> 1, L |-> NewState(c),
          msg |-> <<"Error loading Lua handler", ErrorMsg("string")>>]
    ELSE IF po[1] # 0
    THEN [exit |-> 1, L |-> [NewState(c) EXCEPT !.runs = 1],
          msg |-> <<"Error initializing Lua handler", ErrorMsg(po[2])>>]
    ELSE IF cbType # "function"
    THEN [exit |-> 1, L |-> [NewState(c) EXCEPT !.runs = 1, !.cb = cbType],
          msg |-> <<"Error: Lua handler provides no handle_request() callback.">>]
    ELSE [exit |-> -1, L |-> [NewState(c) EXCEPT !.runs = 1, !.cb = cbType],
          msg |-> <<>>]

\* lua_plugin_init: exit() inside uh_lua_state_init ends the process before
\* dispatch_add is reached
LuaPluginInit ==
    /\ state = "boot"
    /\ LET res == uh_lua_state_init(conf, script.load, script.init, script.cb)
       IN  /\ lua_opens' = lua_opens + 1
           /\ err_out' = IF res.msg = <<>> THEN err_out
                         ELSE Append(err_out, res.msg)
           /\ IF res.exit # -1
              THEN /\ state' = "exited"
                   /\ exit_status' = res.exit
                   /\ UNCHANGED <<_L, dispatch>>
              ELSE /\ _L' = Ptr(res.L)
                   /\ dispatch' = Append(dispatch, "lua_dispatch")
                   /\ state' = "running"
                   /\ UNCHANGED exit_status
    /\ UNCHANGED <<conf, script, _pi, reqs, client_errors>>
    /\ UNCHANGED recvvars

\* ------------------------------------------------------------- lua_main
\* the length of the path part of the url, query string included
path_len_whole(url) == strlen(url)

\* path_len: strlen(url), or the offset of the first '?' when there is one
path_len(url) ==
    IF strchr(url, "?") # 0 THEN strchr(url, "?") - 1 ELSE strlen(url)

\* pi->query after lua_main's strchr: the suffix starting at '?', or unchanged
SetQuery(query, url) ==
    IF strchr(url, "?") # 0
    THEN Ptr(SubSeq(url, strchr(url, "?"), Len(url)))
    ELSE query

\* a table that already lives in the interpreter instead of a new one
lua_sharedtable(L) == L.uhttpd

\* lua_newtable: a new, empty table
lua_newtable(L) == EmptyTable

\* PATH_INFO: pushed only when the path is longer than the prefix
PushPathInfo(t, url, prefix) ==
    IF path_len(url) > strlen(prefix)
    THEN lua_setfield(t, "PATH_INFO",
             LuaString(SubSeq(url, strlen(prefix) + 1, path_len(url))))
    ELSE t

\* the loop over get_process_vars with break in place of continue
RECURSIVE PushVarsBreak(_, _, _)
PushVarsBreak(t, v, i) ==
    IF v[i].name = NULL THEN t
    ELSE IF v[i].value = NULL THEN t
    ELSE PushVarsBreak(lua_setfield(t, v[i].name[1], LuaString(v[i].value[1])),
                       v, i + 1)

\* the loop over get_process_vars: stops at the first null name, skips null
\* values
RECURSIVE PushVars(_, _, _)
PushVars(t, v, i) ==
    IF v[i].name = NULL THEN t
    ELSE IF v[i].value = NULL THEN PushVars(t, v, i + 1)
    ELSE PushVars(lua_setfield(t, v[i].name[1], LuaString(v[i].value[1])),
                  v, i + 1)

\* HTTP_VERSION pushed as a string
PushHttpVersionString(t, version) ==
    lua_setfield(t, "HTTP_VERSION",
        LuaString(CASE version = 0 -> <<"0", ".", "9">>
                    [] version = 1 -> <<"1", ".", "0">>
                    [] OTHER -> <<"1", ".", "1">>))

\* HTTP_VERSION: lua_pushnumber(0.9 + version / 10.0), kept here in tenths
PushHttpVersion(t, version) ==
    lua_setfield(t, "HTTP_VERSION", LuaNumber(9 + version))

\* the 500 response of lua_main
Status500 == "Status: 500 Internal Server Error"

\* what follows lua_pcall: the switch, luaL_checkstring, printf and exit(0).
\* luaL_checkstring raises a Lua error on a value that is neither a string nor
\* a number; outside a protected call that ends in the panic function and
\* exit(EXIT_FAILURE).
AfterPcall(po) ==
    IF po[1] \in {LUA_ERRMEM, LUA_ERRRUN}
    THEN IF IsStringable(po[2])
         THEN [out |-> <<Status500>>, exit |-> 0]
         ELSE [out |-> <<>>, exit |-> 1]
    ELSE [out |-> <<>>, exit |-> 0]

\* ops->get_process_vars: the array of the host's environment variables for
\* the request, closed by an entry with a null name
get_process_vars(cl, pi) == cl.vars

\* lua_main run in process p with protected-call outcome po
lua_main(p, prefix, po) ==
    LET t0 == lua_newtable(p.L)
        t1 == PushPathInfo(t0, p.url, prefix)
        t2 == PushVars(t1, get_process_vars(p.cl, p.pi), 1)
        t3 == PushHttpVersion(t2, p.cl.version)
        fin == AfterPcall(po)
    IN  [p EXCEPT !.pc = "exited",
                  !.pi = [p.pi EXCEPT !.query = SetQuery(p.pi.query, p.url)],
                  !.env_pi = t1,
                  !.env = t3,
                  !.L = [p.L EXCEPT !.runs = p.L.runs + 1],
                  !.calls = p.calls + 1,
                  !.nargs = 1,
                  !.status = po[1],
                  !.errtype = po[2],
                  !.out = fin.out,
                  !.exit = fin.exit]

LuaMain(i, po) ==
    /\ i \in 1..Len(reqs)
    /\ reqs[i].pc = "spawned"
    /\ reqs' = [reqs EXCEPT ![i] = lua_main(reqs[i], conf.lua_prefix, po)]
    /\ UNCHANGED <<conf, script, state, exit_status, dispatch, _L, lua_opens,
                   err_out, _pi, client_errors>>
    /\ UNCHANGED recvvars

\* --------------------------------------------------- lua_handle_request
\* ops->path_match: the url starts with the prefix
path_match(prefix, url) ==
    /\ Len(url) >= Len(prefix)
    /\ SubSeq(url, 1, Len(prefix)) = prefix

check_lua_url(url) == path_match(conf.lua_prefix, url)

\* ops->create_process: on success the callback runs in a new process that
\* holds a copy of the server's memory; on failure nothing runs
create_process(cl, pi, url, L, ok) ==
    [pc |-> IF ok THEN "spawned" ELSE "nofork",
     url |-> url, pi |-> pi, cl |-> cl, L |-> L,
     env_pi |-> EmptyTable, env |-> EmptyTable,
     calls |-> 0, nargs |-> 0, status |-> -1, errtype |-> "nil",
     out |-> <<>>, exit |-> -1]

\* the path_info handed on is the one the caller passed in
CallerPathInfo(pi_in) == IF pi_in = NULL THEN _pi ELSE pi_in[1]

\* pi = &_pi; pi->name = conf.lua_prefix; pi->phys = conf.lua_handler
HandlerPathInfo(pi_in) ==
    [_pi EXCEPT !.name = Ptr(conf.lua_prefix), !.phys = Ptr(conf.lua_handler)]

\* client_error called whatever create_process returned
ReportsErrorAlways(ok) == TRUE

\* if (!ops->create_process(...)) ops->client_error(...)
ReportsError(ok) == ~ok

LuaHandleRequest(cl, url, pi_in, ok) ==
    /\ state = "running"
    /\ Len(dispatch) > 0
    /\ check_lua_url(url)
    /\ Len(reqs) < MaxRequests
    /\ LET pi == HandlerPathInfo(pi_in)
       IN  /\ _pi' = pi
           /\ reqs' = Append(reqs, create_process(cl, pi, url, _L[1], ok))
           /\ client_errors' =
                IF ReportsError(ok)
                THEN Append(client_errors,
                            [req |-> Len(reqs) + 1, code |-> 500,
                             summary |-> "Internal Server Error"])
                ELSE client_errors
    /\ UNCHANGED <<conf, script, state, exit_status, dispatch, _L, lua_opens,
                   err_out>>
    /\ UNCHANGED recvvars

\* ------------------------------------------------------- the input sets
Var(n, v) == [name |-> n, value |-> v]
Term == Var(NULL, NULL)

VarNames == {"PATH_INFO", "HTTP_VERSION", "REQUEST_METHOD"}
VarEntries ==
    {Var(Ptr("PATH_INFO"), Ptr(<<"/">>)), Var(Ptr("HTTP_VERSION"), Ptr(<<"a">>)),
     Var(Ptr("REQUEST_METHOD"), Ptr(<<"a">>)),
     Var(Ptr("REQUEST_METHOD"), Ptr(<<"/">>)),
     Var(Ptr("REQUEST_METHOD"), NULL), Term}

\* arrays of at most MaxVars entries and the closing entry; an entry with a
\* null name before the end closes the array early
VarArrays == {Append(a, Term) : a \in SeqsUpTo(VarEntries, MaxVars)}

Versions == {0, 1, 2}

Prefixes == {SubSeq(<<"/", "a", "/", "a", "/", "a">>, 1, n) : n \in 0..MaxPrefixLen}
Urls == SeqsUpTo(Chars, MaxUrlLen)

Conf(prefix) ==
    [lua_prefix |-> prefix, lua_handler |-> "/www/handler.lua",
     docroot |-> "/www"]

Scripts == [load : LoadResults, init : PcallOutcomes, cb : LuaTypes]
GoodScript == [load |-> 0, init |-> <<0, "nil">>, cb |-> "function"]

ZeroPathInfo == [name |-> NULL, phys |-> NULL, query |-> NULL]
OtherPathInfo ==
    [name |-> Ptr(<<"/">>), phys |-> Ptr("/www/index.html"), query |-> NULL]

MainUrls == {<<"/", "a">>, <<"/", "a", "/", "a", "?", "a">>}
MainClients ==
    {[version |-> 1, vars |-> <<Term>>],
     [version |-> 2,
      vars |-> <<Var(Ptr("REQUEST_METHOD"), Ptr(<<"a">>)), Term>>]}

NoPoll == [revents |-> {}, err |-> "none"]
NoEvent == [kind |-> "none", r |-> 0, errno |-> "none", poll |-> NoPoll]

\* no uh_lua_recv call made yet
RecvIdle ==
    /\ rpc = "idle" /\ len = 0 /\ B = <<>> /\ data_len = 0 /\ errno = "none"
    /\ revents = {} /\ ev = NoEvent
    /\ ret = <<>> /\ stdin = <<>> /\ stdin0 = <<>> /\ retries = 0

\* ----------------------------------------------- the server and requests
Init ==
    /\ conf = Conf(<<"/", "a">>)
    /\ script \in Scripts
    /\ state = "boot"
    /\ exit_status = -1
    /\ dispatch = <<>>
    /\ _L = NULL
    /\ lua_opens = 0
    /\ err_out = <<>>
    /\ _pi = ZeroPathInfo
    /\ reqs = <<>>
    /\ client_errors = <<>>
    /\ RecvIdle

Next ==
    \/ LuaPluginInit
    \/ \E cl \in MainClients, url \in MainUrls,
          pi_in \in {NULL, Ptr(OtherPathInfo)}, ok \in BOOLEAN :
          LuaHandleRequest(cl, url, pi_in, ok)
    \/ \E i \in 1..MaxRequests, po \in PcallOutcomes : LuaMain(i, po)

Spec == Init /\ [][Next]_vars

\* ------------------------ lua_main over all urls and prefixes (PATH_INFO)
\* the server after a successful lua_plugin_init, one request spawned
Spawned(c, cl, url) ==
    /\ conf = c
    /\ script = GoodScript
    /\ state = "running"
    /\ exit_status = -1
    /\ dispatch = <<"lua_dispatch">>
    /\ _L = Ptr(uh_lua_state_init(c, 0, <<0, "nil">>, "function").L)
    /\ lua_opens = 1
    /\ err_out = <<>>
    /\ _pi = [ZeroPathInfo EXCEPT !.name = Ptr(c.lua_prefix),
                                  !.phys = Ptr(c.lua_handler)]
    /\ reqs = <<create_process(cl, _pi, url, _L[1], TRUE)>>
    /\ client_errors = <<>>

InitPath ==
    /\ \E prefix \in Prefixes, url \in Urls, cl \in MainClients :
          Spawned(Conf(prefix), cl, url)
    /\ RecvIdle

NextPath == \E po \in PcallOutcomes : LuaMain(1, po)

SpecPath == InitPath /\ [][NextPath]_vars

\* ------------------- lua_main over all process variable arrays (the table)
InitVars ==
    /\ \E url \in MainUrls \cup {<<"/">>}, version \in Versions,
          va \in VarArrays :
          Spawned(Conf(<<"/", "a">>), [version |-> version, vars |-> va], url)
    /\ RecvIdle

NextVars == \E po \in PcallOutcomes : LuaMain(1, po)

SpecVars == InitVars /\ [][NextVars]_vars

\* ---------------------------------------------------------- uh_lua_recv
Bytes == {"x", "y"}
Bodies == SeqsUpTo(Bytes, MaxBody)

\* outcomes of poll(&pfd, 1, 1000): the revents it stores and the errno it
\* sets when it fails ("none": errno is left as read() set it)
PollOutcomes ==
    {[revents |-> {"POLLIN"}, err |-> "none"],
     [revents |-> {"POLLIN", "POLLHUP"}, err |-> "none"],
     [revents |-> {"POLLHUP"}, err |-> "none"],
     [revents |-> {}, err |-> "none"],
     [revents |-> {}, err |-> "EINTR"],
     [revents |-> {}, err |-> "ENOMEM"]}

ReadErrors == {"EAGAIN", "EINTR", "EIO"}

\* the Lua stack, bottom first; idx < 0 counts from the top
lua_pushvalue(st, idx) == Append(st, st[Len(st) + 1 + idx])
lua_remove(st, idx) ==
    LET k == Len(st) + 1 + idx
    IN  SubSeq(st, 1, k - 1) \o SubSeq(st, k + 1, Len(st))
Returned(st, n) == SubSeq(st, Len(st) - n + 1, Len(st))

\* luaL_pushresult, lua_pushnumber and the values returned
RecvResult(l, b, n) ==
    LET st == <<LuaNumber(l), LuaString(b), LuaNumber(n)>>
    IN  IF n > 0
        THEN Returned(lua_remove(lua_pushvalue(st, -2), -3), 2)
        ELSE Returned(lua_remove(st, -2), 1)

\* errno once the error branch has called poll (only after EAGAIN)
ErrnoAfter(e, p) == IF e = "EAGAIN" /\ p.err # "none" THEN p.err ELSE e

\* the error branch retrying on EINTR only
RetriesEintrOnly(e, p) == ErrnoAfter(e, p) = "EINTR"

\* the error branch of the loop: TRUE when it reaches a continue
Retries(e, p) ==
    \/ e = "EAGAIN" /\ "POLLIN" \in p.revents
    \/ ErrnoAfter(e, p) = "EINTR"

\* if (!data_len) data_len = -1;
ErrorDataLen(n) == IF n = 0 THEN -1 ELSE n

\* uhttpd.recv(l) called by the script: luaL_checknumber, luaL_buffinit and
\* the first test of the loop condition
RecvCall(l) ==
    /\ rpc \in {"idle", "done"}
    /\ len' = l
    /\ B' = <<>>
    /\ data_len' = 0
    /\ stdin0' = stdin
    /\ retries' = 0
    /\ ev' = NoEvent
    /\ IF l > 0
       THEN rpc' = "loop" /\ ret' = <<>>
       ELSE rpc' = "done" /\ ret' = RecvResult(l, <<>>, 0)
    /\ UNCHANGED <<errno, revents, stdin>>
    /\ UNCHANGED mainvars

\* read() stores k > 0 bytes
RecvReadData(k) ==
    /\ rpc = "loop"
    /\ k \in 1..LUAL_BUFFERSIZE
    /\ k <= Len(stdin)
    /\ B' = B \o SubSeq(stdin, 1, k)
    /\ data_len' = data_len + k
    /\ stdin' = SubSeq(stdin, k + 1, Len(stdin))
    /\ ev' = [NoEvent EXCEPT !.kind = "data", !.r = k]
    /\ IF k # LUAL_BUFFERSIZE
       THEN rpc' = "done" /\ ret' = RecvResult(len, B', data_len')
       ELSE rpc' = "loop" /\ ret' = ret
    /\ UNCHANGED <<len, errno, revents, stdin0, retries>>
    /\ UNCHANGED mainvars

\* read() returns 0: end of input
RecvReadEof ==
    /\ rpc = "loop"
    /\ Len(stdin) = 0
    /\ ev' = [NoEvent EXCEPT !.kind = "eof"]
    /\ rpc' = "done"
    /\ ret' = RecvResult(len, B, data_len)
    /\ UNCHANGED <<len, B, data_len, errno, revents, stdin, stdin0, retries>>
    /\ UNCHANGED mainvars

\* read() fails with errno e; after EAGAIN poll() ends as p
RecvReadError(e, p) ==
    /\ rpc = "loop"
    /\ e = "EAGAIN" \/ p = NoPoll
    /\ ev' = [kind |-> "error", r |-> -1, errno |-> e, poll |-> p]
    /\ errno' = ErrnoAfter(e, p)
    /\ revents' = IF e = "EAGAIN" THEN p.revents ELSE revents
    /\ IF Retries(e, p)
       THEN /\ retries < MaxRetry
            /\ retries' = retries + 1
            /\ UNCHANGED <<rpc, ret, data_len>>
       ELSE /\ data_len' = ErrorDataLen(data_len)
            /\ rpc' = "done"
            /\ ret' = RecvResult(len, B, data_len')
            /\ UNCHANGED retries
    /\ UNCHANGED <<len, B, stdin, stdin0>>
    /\ UNCHANGED mainvars

InitRecv ==
    /\ \E cl \in MainClients : Spawned(Conf(<<"/", "a">>), cl, <<"/", "a">>)
    /\ rpc = "idle" /\ len = 0 /\ B = <<>> /\ data_len = 0 /\ errno = "none"
    /\ revents = {} /\ ev = NoEvent /\ ret = <<>> /\ retries = 0
    /\ stdin \in Bodies
    /\ stdin0 = stdin

NextRecv ==
    \/ \E l \in -1..MaxLen : RecvCall(l)
    \/ \E k \in 1..LUAL_BUFFERSIZE : RecvReadData(k)
    \/ RecvReadEof
    \/ \E e \in ReadErrors, p \in PollOutcomes \cup {NoPoll} : RecvReadError(e, p)

SpecRecv == InitRecv /\ [][NextRecv]_vars

\* =============================================================== claims
Exited(i) == i \in 1..Len(reqs) /\ reqs[i].pc = "exited"

\* C1: when loading the handler fails, or running its chunk fails, or
\* handle_request is not a function afterwards, lua_plugin_init exits the
\* process with status 1 and registers no dispatch handler; a handler is
\* registered only with an interpreter in which handle_request is a function.
C1_InitFailureExits ==
    /\ (/\ state # "boot"
        /\ \/ script.load # 0
           \/ script.init[1] # 0
           \/ script.cb # "function")
       => (state = "exited" /\ exit_status = 1 /\ dispatch = <<>>)
    /\ Len(dispatch) > 0
       => (/\ _L # NULL
           /\ _L[1].cb = "function"
           /\ script.load = 0
           /\ script.init[1] = 0)

C1_Witness ==
    /\ state = "exited"
    /\ script.load = 0
    /\ script.init[1] = 0
    /\ script.cb = "table"

\* C2: in lua_main a 500 response is written whenever the protected call of
\* handle_request ends with a non-zero status, and none is written when it
\* ends with status 0.
C2_FailureWrites500 ==
    \A i \in 1..Len(reqs) :
        reqs[i].pc = "exited"
        => (reqs[i].status # 0 <=> reqs[i].out = <<Status500>>)

\* C3: every spawned request process calls handle_request exactly once with
\* exactly one argument, and once the call has returned the process ends
\* with exit status 0.
C3_OneShot ==
    \A i \in 1..Len(reqs) :
        /\ reqs[i].calls <= 1
        /\ reqs[i].pc = "exited"
           => (reqs[i].calls = 1 /\ reqs[i].nargs = 1 /\ reqs[i].exit = 0)

\* C4: each request handed to lua_handle_request either has a spawned
\* process that runs lua_main with pi->name the configured prefix and
\* pi->phys the configured handler and no client_error, or has no process
\* and exactly one 500 'Internal Server Error' sent through client_error;
\* the callback never runs in the server process.
C4_ErrorsOf(i) == {j \in 1..Len(client_errors) : client_errors[j].req = i}

C4_SpawnXorError ==
    /\ \A i \in 1..Len(reqs) :
        \/ /\ reqs[i].pc \in {"spawned", "exited"}
           /\ reqs[i].pi.name = Ptr(conf.lua_prefix)
           /\ reqs[i].pi.phys = Ptr(conf.lua_handler)
           /\ C4_ErrorsOf(i) = {}
        \/ /\ reqs[i].pc = "nofork"
           /\ reqs[i].calls = 0
           /\ Cardinality(C4_ErrorsOf(i)) = 1
           /\ \A j \in C4_ErrorsOf(i) :
                /\ client_errors[j].code = 500
                /\ client_errors[j].summary = "Internal Server Error"
    /\ state = "running" => _L[1].runs = 1

C4_Witness ==
    /\ Len(reqs) = 2
    /\ reqs[1].pc = "nofork"
    /\ reqs[2].pc = "exited"

\* C5 as stated: every entry of the table passed to handle_request has a
\* string value.
C5_AllValuesStrings ==
    \A i \in 1..Len(reqs) :
        reqs[i].pc = "exited"
        => \A k \in DOMAIN reqs[i].env : reqs[i].env[k].t = "string"

\* C5 as amended: every entry of the table passed to handle_request has a
\* string value, except HTTP_VERSION, whose value is a number.
C5_StringsButHttpVersion ==
    \A i \in 1..Len(reqs) :
        reqs[i].pc = "exited"
        => /\ "HTTP_VERSION" \in DOMAIN reqs[i].env
           /\ \A k \in DOMAIN reqs[i].env :
                reqs[i].env[k].t =
                    IF k = "HTTP_VERSION" THEN "number" ELSE "string"

C5_Witness ==
    /\ Exited(1)
    /\ DOMAIN reqs[1].env = {"PATH_INFO", "REQUEST_METHOD", "HTTP_VERSION"}

\* C6: the interpreter is created once, at plugin init, and the server
\* process never runs script code in it or modifies it afterwards; the table
\* passed to handle_request holds only entries lua_main wrote for this
\* request.
C6_VarNames(va) ==
    {va[j].name[1] : j \in {x \in 1..Len(va) : va[x].name # NULL}}

C6_SingleInterpreter ==
    /\ state = "running"
       => /\ lua_opens = 1
          /\ _L = Ptr([NewState(conf) EXCEPT !.runs = 1, !.cb = "function"])
    /\ state = "exited" => lua_opens = 1 /\ _L = NULL
    /\ \A i \in 1..Len(reqs) :
        /\ reqs[i].L.runs = IF reqs[i].pc = "exited" THEN 2 ELSE 1
        /\ reqs[i].pc = "exited"
           => DOMAIN reqs[i].env \subseteq
                {"PATH_INFO", "HTTP_VERSION"} \cup C6_VarNames(reqs[i].cl.vars)

C6_Witness ==
    /\ Exited(1) /\ Exited(2)
    /\ "REQUEST_METHOD" \in DOMAIN reqs[1].env
    /\ "REQUEST_METHOD" \notin DOMAIN reqs[2].env
    /\ "PATH_INFO" \in DOMAIN reqs[1].env
    /\ "PATH_INFO" \notin DOMAIN reqs[2].env

\* C7: with path the part of the url before its first '?', lua_main sets
\* PATH_INFO iff path is longer than the prefix, to the characters of path
\* after the first length(prefix) ones (never the '?' or the query string);
\* pi->query becomes the url suffix starting at the first '?', and stays as
\* it was when the url has none.
C7_HasQuery(url) == \E j \in 1..Len(url) : url[j] = "?"

C7_Path(url) ==
    CHOOSE p \in {SubSeq(url, 1, n) : n \in 0..Len(url)} :
        /\ \A j \in 1..Len(p) : p[j] # "?"
        /\ Len(p) = Len(url) \/ url[Len(p) + 1] = "?"

C7_PathInfo ==
    \A i \in 1..Len(reqs) :
        reqs[i].pc = "exited"
        => LET url == reqs[i].url
               path == C7_Path(url)
               pfx == conf.lua_prefix
               t == reqs[i].env_pi
           IN  /\ DOMAIN t \subseteq {"PATH_INFO"}
               /\ "PATH_INFO" \in DOMAIN t <=> Len(path) > Len(pfx)
               /\ "PATH_INFO" \in DOMAIN t
                  => /\ t["PATH_INFO"].t = "string"
                     /\ Len(t["PATH_INFO"].v) = Len(path) - Len(pfx)
                     /\ \A j \in 1..Len(t["PATH_INFO"].v) :
                          /\ t["PATH_INFO"].v[j] = path[Len(pfx) + j]
                          /\ t["PATH_INFO"].v[j] # "?"
               /\ IF C7_HasQuery(url)
                  THEN /\ reqs[i].pi.query # NULL
                       /\ reqs[i].pi.query[1][1] = "?"
                       /\ path \o reqs[i].pi.query[1] = url
                  ELSE reqs[i].pi.query = _pi.query

C7_Witness ==
    /\ Exited(1)
    /\ conf.lua_prefix = <<"/">>
    /\ reqs[1].url = <<"/", "a", "?">>
    /\ reqs[1].env_pi = [k \in {"PATH_INFO"} |-> LuaString(<<"a">>)]
    /\ reqs[1].pi.query = Ptr(<<"?">>)

\* C8: the table is filled with PATH_INFO, then the process variables in
\* array order up to the first null name, then HTTP_VERSION; a variable with
\* a null value leaves the table unchanged; the last value written for a key
\* is the one the script sees, so a process variable named PATH_INFO replaces
\* the computed one and HTTP_VERSION is always 0.9, 1.0, 1.1 (here in tenths)
\* for version 0, 1, 2.
C8_End(va) == CHOOSE n \in 1..Len(va) :
                 va[n].name = NULL /\ \A j \in 1..(n - 1) : va[j].name # NULL

C8_Writes(va, k) ==
    {j \in 1..(C8_End(va) - 1) : va[j].value # NULL /\ va[j].name[1] = k}

C8_Last(S) == CHOOSE j \in S : \A x \in S : x <= j

C8_EnvOrder ==
    \A i \in 1..Len(reqs) :
        reqs[i].pc = "exited"
        => LET va == reqs[i].cl.vars
               env == reqs[i].env
               t1 == reqs[i].env_pi
           IN  /\ DOMAIN env =
                    {"HTTP_VERSION"} \cup DOMAIN t1 \cup
                    {k \in VarNames : C8_Writes(va, k) # {}}
               /\ env["HTTP_VERSION"] =
                    LuaNumber(CASE reqs[i].cl.version = 0 -> 9
                                [] reqs[i].cl.version = 1 -> 10
                                [] reqs[i].cl.version = 2 -> 11)
               /\ \A k \in DOMAIN env \ {"HTTP_VERSION"} :
                    IF C8_Writes(va, k) # {}
                    THEN env[k] = LuaString(va[C8_Last(C8_Writes(va, k))].value[1])
                    ELSE env[k] = t1[k]

C8_Witness ==
    /\ Exited(1)
    /\ reqs[1].cl.vars = <<Var(Ptr("REQUEST_METHOD"), NULL),
                           Var(Ptr("PATH_INFO"), Ptr(<<"/">>)), Term>>
    /\ reqs[1].env_pi = [k \in {"PATH_INFO"} |-> LuaString(<<"/", "a">>)]
    /\ reqs[1].env["PATH_INFO"] = LuaString(<<"/">>)
    /\ "REQUEST_METHOD" \notin DOMAIN reqs[1].env

\* C9, the part shared by the claim as stated and as amended: uhttpd.recv
\* returns (n, data) with n > 0 and data the n bytes read, in read order,
\* when a byte was read; otherwise the single value 0 (len <= 0, or end of
\* input) or -1 (read error); the loop stops at a short read and at end of
\* input, and goes on after a full read and after EINTR.
C9_Result ==
    rpc = "done"
    => /\ ret # <<>>
       /\ ret[1].t = "number"
       /\ IF Len(stdin0) > Len(stdin)
          THEN /\ Len(ret) = 2
               /\ ret[1].v = Len(stdin0) - Len(stdin)
               /\ ret[1].v > 0
               /\ ret[2].t = "string"
               /\ ret[2].v \o stdin = stdin0
          ELSE /\ Len(ret) = 1
               /\ stdin = stdin0
               /\ ret[1].v = IF len <= 0 \/ ev.kind = "eof" THEN 0 ELSE -1
               /\ ret[1].v = -1 => ev.kind = "error"

C9_Loop ==
    /\ rpc = "loop" => stdin0 = B \o stdin
    /\ ev.kind = "data" => (rpc = "done" <=> ev.r < LUAL_BUFFERSIZE)
    /\ ev.kind = "eof" => rpc = "done"
    /\ (ev.kind = "error" /\ ev.errno = "EINTR") => rpc = "loop"
    /\ (ev.kind = "error" /\ ev.errno \notin {"EINTR", "EAGAIN"}) => rpc = "done"

\* C9 as stated: after EAGAIN/EWOULDBLOCK the read is retried only when the
\* poll reports input readable, and is an error otherwise.
C9_RecvProtocolAsStated ==
    /\ C9_Result
    /\ C9_Loop
    /\ (ev.kind = "error" /\ ev.errno = "EAGAIN")
       => (rpc = "loop" <=> "POLLIN" \in ev.poll.revents)

\* C9 as amended: after EAGAIN/EWOULDBLOCK the read is retried when the poll
\* reports input readable or the poll itself fails with EINTR, and is an
\* error otherwise.
C9_RecvProtocol ==
    /\ C9_Result
    /\ C9_Loop
    /\ (ev.kind = "error" /\ ev.errno = "EAGAIN")
       => (rpc = "loop" <=> \/ "POLLIN" \in ev.poll.revents
                            \/ ev.poll.err = "EINTR")

C9_Witness ==
    /\ rpc = "loop"
    /\ B = <<"x", "y">>
    /\ ev.kind = "error" /\ ev.errno = "EAGAIN"
    /\ ev.poll.revents = {} /\ ev.poll.err = "EINTR"
    /\ errno = "EINTR"
    /\ retries = 1

\* C10: uhttpd.recv(len) returns and consumes at most len bytes, and stops
\* reading once len bytes have been read.
C10_RespectsLen ==
    /\ rpc = "done" /\ len > 0 => Len(stdin0) - Len(stdin) <= len
    /\ rpc = "loop" => data_len < len

====
